---- MODULE Spec2Model ----
(***************************************************************************)
(* A model of the AimHarder bot: the time gate (wait_until_target_time),   *)
(* the class matcher (find_matching_class), the booking executor           *)
(* (book_class) of main.py and the digest assembly of                      *)
(* notify_workouts.notify_all_workouts.                                    *)
(*                                                                         *)
(* Python values are records [t, s, n]: t is the Python type, s the text   *)
(* of a str as a sequence of one-character strings, n the number of an int *)
(* or bool.  A dict is a function whose DOMAIN is the set of keys present. *)
(***************************************************************************)
EXTENDS Integers, Sequences, FiniteSets, TLC

VARIABLES
    class_info,     \* book_class: the catalog record passed in
    dry_run,        \* book_class: the dry_run argument
    response,       \* book_class: the response of session.post, NoResponse before
    posts,          \* the booking POSTs issued so far (the payload ids)
    book_result,    \* book_class: what it returned and the branch that returned
    classes,        \* find_matching_class: the catalog list (mutable records)
    target_time,    \* find_matching_class: target_time argument (a str)
    target_name,    \* find_matching_class: target_name argument (a str)
    match_result,   \* find_matching_class: index of the returned record, 0 for None
    match_called,   \* find_matching_class has returned
    classes_before, \* the catalog list as it was passed in (history)
    feed,           \* notify_all_workouts: the responses and the per-day workouts
    sent,           \* the texts handed to send_telegram_notification, in order
    notify_ret,     \* notify_all_workouts: what it returned and the branch that returned
    day_blocks,     \* notify_all_workouts: day_blocks of lines 241-258
    run_days,       \* notify_all_workouts: run_days of lines 242-254
    skip_wait,      \* wait_until_target_time: skip_wait argument
    target,         \* wait_until_target_time: target, in seconds
    now,            \* wait_until_target_time: the last datetime.now(tz) read
    wait_seconds,   \* wait_until_target_time: (target - now) of line 48
    sleep_time,     \* wait_until_target_time: argument of the pending time.sleep
    wpc,            \* wait_until_target_time: position in the function
    rpc,            \* main: position in the function, "idle" when main is not running
    schedule,       \* main: what load_schedule finds in the schedule file
    day_schedule,   \* main: schedule.get(day_name) of line 441
    login_ret,      \* main: what login returned, "NotCalled" before
    calls,          \* the requests main has issued so far, in order
    run_exit        \* main: the status given to sys.exit and the line that gave it

bookVars == <<class_info, dry_run, response, posts, book_result>>
matchVars == <<classes, target_time, target_name, match_result, match_called, classes_before>>
digestVars == <<feed, sent, notify_ret, day_blocks, run_days>>
waitVars == <<skip_wait, target, now, wait_seconds, sleep_time, wpc>>
runVars == <<rpc, schedule, day_schedule, login_ret, calls, run_exit>>
vars == <<bookVars, matchVars, digestVars, waitVars, runVars>>

----------------------------------------------------------------------------
(* Python values *)

StrV(s) == [t |-> "str", s |-> s, n |-> 0]
IntV(n) == [t |-> "int", s |-> <<>>, n |-> n]
BoolV(b) == [t |-> "bool", s |-> <<>>, n |-> IF b THEN 1 ELSE 0]
NoneV == [t |-> "none", s |-> <<>>, n |-> 0]
\* A key that is not in the dict (used only to build dicts).
ABSENT == [t |-> "absent", s |-> <<>>, n |-> 0]

\* The dict with the keys of r whose value is not ABSENT.
Dict(r) == [k \in {j \in DOMAIN r : r[j] # ABSENT} |-> r[k]]

\* dict.get(k, default)
Get(d, k, default) == IF k \in DOMAIN d THEN d[k] ELSE default

\* bool(v)
Truthy(v) ==
    CASE v.t = "none" -> FALSE
      [] v.t = "bool" -> v.n = 1
      [] v.t = "int" -> v.n # 0
      [] v.t = "str" -> Len(v.s) > 0
      [] OTHER -> FALSE

\* v == n for an int literal n (True == 1 and False == 0 in Python)
PyEqInt(v, n) == v.t \in {"int", "bool"} /\ v.n = n

----------------------------------------------------------------------------
(* book_class *)

NoResponse == [ok |-> FALSE, kind |-> "none", obj |-> Dict([logout |-> ABSENT])]
NotCalled == [ret |-> FALSE, branch |-> "NotCalled"]

\* class_info.get("id", class_info.get("classId", class_info.get("sessionId")))
ClassId(info) == Get(info, "id", Get(info, "classId", Get(info, "sessionId", NoneV)))

\* The classification with bookState tested before logout.
BookClassifyWrongOrder(resp) ==
    IF resp.ok
    THEN IF resp.kind = "invalid" THEN [ret |-> TRUE, branch |-> "SuccessNoJson"]
         ELSE IF resp.kind = "dict"
         THEN LET result == resp.obj
                  book_state == Get(result, "bookState", NoneV)
              IN  IF book_state # NoneV /\ PyEqInt(book_state, -2)
                  THEN [ret |-> FALSE, branch |-> "NoCredit"]
                  ELSE IF book_state # NoneV /\ PyEqInt(book_state, -12)
                  THEN [ret |-> FALSE, branch |-> "TooSoonToBook"]
                  ELSE IF PyEqInt(Get(result, "logout", NoneV), 1)
                  THEN [ret |-> FALSE, branch |-> "SessionExpired"]
                  ELSE IF "errorMssg" \in DOMAIN result \/ "errorMssgLang" \in DOMAIN result
                  THEN [ret |-> FALSE, branch |-> "GenericError"]
                  ELSE [ret |-> TRUE, branch |-> "Success"]
         ELSE [ret |-> TRUE, branch |-> "Success"]
    ELSE [ret |-> FALSE, branch |-> "TransportError"]

\* The branch of lines 356-390 a response takes: the returned bool and the
\* message printed.  kind is "invalid" when response.json() raises
\* JSONDecodeError, "other" for JSON that is no dict, "dict" for a dict.
BookClassify(resp) ==
    IF resp.ok
    THEN IF resp.kind = "invalid" THEN [ret |-> TRUE, branch |-> "SuccessNoJson"]
         ELSE IF resp.kind = "dict"
         THEN LET result == resp.obj
                  book_state == Get(result, "bookState", NoneV)
              IN  IF PyEqInt(Get(result, "logout", NoneV), 1)
                  THEN [ret |-> FALSE, branch |-> "SessionExpired"]
                  ELSE IF book_state # NoneV /\ PyEqInt(book_state, -2)
                  THEN [ret |-> FALSE, branch |-> "NoCredit"]
                  ELSE IF book_state # NoneV /\ PyEqInt(book_state, -12)
                  THEN [ret |-> FALSE, branch |-> "TooSoonToBook"]
                  ELSE IF "errorMssg" \in DOMAIN result \/ "errorMssgLang" \in DOMAIN result
                  THEN [ret |-> FALSE, branch |-> "GenericError"]
                  ELSE [ret |-> TRUE, branch |-> "Success"]
         ELSE [ret |-> TRUE, branch |-> "Success"]
    ELSE [ret |-> FALSE, branch |-> "TransportError"]

\* The responses session.post can give.
LogoutValues == {ABSENT, IntV(0), IntV(1), StrV(<<"1">>)}
BookStateValues == {ABSENT, NoneV, IntV(-2), IntV(-12), IntV(1)}
ErrorMssgValues == {ABSENT, StrV(<<"e">>), NoneV}
ErrorMssgLangValues == {ABSENT, StrV(<<"l">>)}
ResponseObjects ==
    { Dict([logout |-> lo, bookState |-> bs, errorMssg |-> em, errorMssgLang |-> el]) :
        lo \in LogoutValues, bs \in BookStateValues,
        em \in ErrorMssgValues, el \in ErrorMssgLangValues }
Responses ==
    { [ok |-> o, kind |-> "dict", obj |-> r] : o \in BOOLEAN, r \in ResponseObjects }
    \cup { [ok |-> o, kind |-> k, obj |-> Dict([logout |-> ABSENT])] :
             o \in BOOLEAN, k \in {"invalid", "other"} }

\* The records book_class is called with: each id key absent, falsy or truthy.
ClassInfos ==
    { Dict([id |-> a, classId |-> b, sessionId |-> c]) :
        a \in {ABSENT, IntV(0), IntV(5)},
        b \in {ABSENT, NoneV, IntV(6)},
        c \in {ABSENT, StrV(<<>>), IntV(7)} }

\* book_class with the dry_run test of line 343 left out.
BookClassDryRunPosts ==
    /\ rpc \in {"idle", "book"}
    /\ book_result = NotCalled
    /\ LET class_id == ClassId(class_info)
       IN  IF ~Truthy(class_id)
           THEN /\ book_result' = [ret |-> FALSE, branch |-> "NoClassId"]
                /\ UNCHANGED <<response, posts>>
           ELSE \E resp \in Responses :
                    /\ posts' = Append(posts, class_id)
                    /\ response' = resp
                    /\ book_result' = BookClassify(resp)
    /\ UNCHANGED <<class_info, dry_run>>
    /\ UNCHANGED <<matchVars, digestVars, waitVars, runVars>>

\* book_class sending the request a second time when the first was refused.
BookClassRetries ==
    /\ rpc \in {"idle", "book"}
    /\ book_result = NotCalled
    /\ LET class_id == ClassId(class_info)
       IN  IF ~Truthy(class_id)
           THEN /\ book_result' = [ret |-> FALSE, branch |-> "NoClassId"]
                /\ UNCHANGED <<response, posts>>
           ELSE IF dry_run
           THEN /\ book_result' = [ret |-> TRUE, branch |-> "DryRun"]
                /\ UNCHANGED <<response, posts>>
           ELSE \E resp \in Responses, again \in Responses :
                    IF BookClassify(resp).ret
                    THEN /\ posts' = Append(posts, class_id)
                         /\ response' = resp
                         /\ book_result' = BookClassify(resp)
                    ELSE /\ posts' = Append(Append(posts, class_id), class_id)
                         /\ response' = again
                         /\ book_result' = BookClassify(again)
    /\ UNCHANGED <<class_info, dry_run>>
    /\ UNCHANGED <<matchVars, digestVars, waitVars, runVars>>

\* book_class, lines 319-390: one call.
BookClass ==
    /\ rpc \in {"idle", "book"}
    /\ book_result = NotCalled
    /\ LET class_id == ClassId(class_info)
       IN  IF ~Truthy(class_id)
           THEN /\ book_result' = [ret |-> FALSE, branch |-> "NoClassId"]
                /\ UNCHANGED <<response, posts>>
           ELSE IF dry_run
           THEN /\ book_result' = [ret |-> TRUE, branch |-> "DryRun"]
                /\ UNCHANGED <<response, posts>>
           ELSE \E resp \in Responses :
                    /\ posts' = Append(posts, class_id)
                    /\ response' = resp
                    /\ book_result' = BookClassify(resp)
    /\ UNCHANGED <<class_info, dry_run>>
    /\ UNCHANGED <<matchVars, digestVars, waitVars, runVars>>

----------------------------------------------------------------------------
(* str operations used by find_matching_class *)

Min(a, b) == IF a < b THEN a ELSE b

IsNotColon(c) == c # ":"
\* s.replace(":", "")
StripColons(s) == SelectSeq(s, IsNotColon)

\* c in s, for a one-character c
HasChar(s, c) == \E i \in 1..Len(s) : s[i] = c

\* s.split("_")[0]
BeforeUnderscore(s) ==
    IF HasChar(s, "_")
    THEN LET i == CHOOSE j \in 1..Len(s) :
                      s[j] = "_" /\ \A k \in 1..(j - 1) : s[k] # "_"
         IN  SubSeq(s, 1, i - 1)
    ELSE s

\* s[:4]
First4(s) == SubSeq(s, 1, Min(4, Len(s)))

Digit(d) == <<"0", "1", "2", "3", "4", "5", "6", "7", "8", "9">>[d + 1]
RECURSIVE NatStr(_)
NatStr(n) == IF n < 10 THEN <<Digit(n)>> ELSE Append(NatStr(n \div 10), Digit(n % 10))
\* str(v) for a value that is no str
PyStr(v) ==
    CASE v.t = "int" -> IF v.n < 0 THEN <<"-">> \o NatStr(-v.n) ELSE NatStr(v.n)
      [] v.t = "bool" -> IF v.n = 1 THEN <<"T", "r", "u", "e">> ELSE <<"F", "a", "l", "s", "e">>
      [] v.t = "none" -> <<"N", "o", "n", "e">>
      [] OTHER -> v.s

\* c.lower() for the letters of the model's names
LowerChar(c) ==
    CASE c = "C" -> "c"
      [] c = "F" -> "f"
      [] c = "Y" -> "y"
      [] c = "O" -> "o"
      [] c = "W" -> "w"
      [] OTHER -> c
\* s.lower()
Lower(s) == [i \in 1..Len(s) |-> LowerChar(s[i])]

\* a in b, for two str
IsSubstring(a, b) ==
    \E i \in 0..(Len(b) - Len(a)) : \A j \in 1..Len(a) : b[i + j] = a[j]

----------------------------------------------------------------------------
(* find_matching_class *)

\* cls.get("timeid", cls.get("time", cls.get("startTime", "")))
ClassTime(cls) == Get(cls, "timeid", Get(cls, "time", Get(cls, "startTime", StrV(<<>>))))
\* cls.get("className", cls.get("name", cls.get("activity", "")))
ClassName(cls) == Get(cls, "className", Get(cls, "name", Get(cls, "activity", StrV(<<>>))))

\* lines 181-189: class_time_normalized
ClassTimeNormalized(class_time) ==
    IF class_time.t = "str"
    THEN IF HasChar(class_time.s, "_")
         THEN BeforeUnderscore(class_time.s)
         ELSE First4(StripColons(class_time.s))
    ELSE PyStr(class_time)

\* line 172: target_time_normalized
TargetTimeNormalized(tt) == StripColons(tt)

\* line 191
TimeMatch(cls, tt) == ClassTimeNormalized(ClassTime(cls)) = TargetTimeNormalized(tt)
\* line 192
NameMatch(cls, tn) == IsSubstring(Lower(tn), Lower(ClassName(cls).s))

\* line 199: cls.get("booked") or cls.get("isBooked") or cls.get("reservada")
IsBooked(cls) ==
    \/ Truthy(Get(cls, "booked", NoneV))
    \/ Truthy(Get(cls, "isBooked", NoneV))
    \/ Truthy(Get(cls, "reservada", NoneV))

\* The loop returning the last record that matches instead of the first.
RECURSIVE FindFromLast(_, _, _, _)
FindFromLast(cs, i, tt, tn) ==
    IF i > Len(cs) THEN 0
    ELSE LET later == FindFromLast(cs, i + 1, tt, tn)
         IN  IF later # 0 THEN later
             ELSE IF TimeMatch(cs[i], tt) /\ NameMatch(cs[i], tn) THEN i ELSE 0

\* The loop passing over the records that are already booked.
RECURSIVE FindFromSkipBooked(_, _, _, _)
FindFromSkipBooked(cs, i, tt, tn) ==
    IF i > Len(cs) THEN 0
    ELSE IF TimeMatch(cs[i], tt) /\ NameMatch(cs[i], tn) /\ ~IsBooked(cs[i]) THEN i
    ELSE FindFromSkipBooked(cs, i + 1, tt, tn)

\* The for loop of lines 174-206 from record i on: the index of the record
\* returned, 0 when the loop ends and None is returned.
RECURSIVE FindFrom(_, _, _, _)
FindFrom(cs, i, tt, tn) ==
    IF i > Len(cs) THEN 0
    ELSE IF TimeMatch(cs[i], tt) /\ NameMatch(cs[i], tn) THEN i
    ELSE FindFrom(cs, i + 1, tt, tn)

\* The marking that also rewrites the record's booked flag.
MarkBookedClobber(cls) ==
    [k \in DOMAIN cls \cup {"_is_already_booked", "booked"} |->
        IF k \in {"_is_already_booked", "booked"} THEN BoolV(TRUE) ELSE cls[k]]

\* line 202: cls["_is_already_booked"] = True
MarkBooked(cls) ==
    [k \in DOMAIN cls \cup {"_is_already_booked"} |->
        IF k = "_is_already_booked" THEN BoolV(TRUE) ELSE cls[k]]

\* The catalog after the call: the returned record is marked when it is booked.
ClassesAfter(cs, idx) ==
    IF idx # 0 /\ IsBooked(cs[idx])
    THEN [cs EXCEPT ![idx] = MarkBooked(cs[idx])]
    ELSE cs

\* find_matching_class, lines 167-206: one call.
FindMatchingClass ==
    /\ rpc \in {"idle", "match"}
    /\ ~match_called
    /\ LET idx == FindFrom(classes, 1, target_time, target_name)
       IN  /\ match_result' = idx
           /\ classes' = ClassesAfter(classes, idx)
    /\ match_called' = TRUE
    /\ UNCHANGED <<target_time, target_name, classes_before>>
    /\ UNCHANGED <<bookVars, digestVars, waitVars, runVars>>

\* The catalog records of the model.
T(s) == StrV(s)
Rec(r) ==
    Dict([timeid |-> r.timeid, time |-> r.time, startTime |-> r.startTime,
          className |-> r.className, name |-> r.name, activity |-> r.activity,
          booked |-> r.booked, isBooked |-> r.isBooked, reservada |-> r.reservada])
NoKeys ==
    [timeid |-> ABSENT, time |-> ABSENT, startTime |-> ABSENT,
     className |-> ABSENT, name |-> ABSENT, activity |-> ABSENT,
     booked |-> ABSENT, isBooked |-> ABSENT, reservada |-> ABSENT]
Time0700_60 == <<"0", "7", "0", "0", "_", "6", "0">>
Time07c00 == <<"0", "7", ":", "0", "0">>
Time07c00c00 == <<"0", "7", ":", "0", "0", ":", "0", "0">>
Time0700 == <<"0", "7", "0", "0">>
Time0800_60 == <<"0", "8", "0", "0", "_", "6", "0">>
Time08c00 == <<"0", "8", ":", "0", "0">>
NameCfW == <<"C", "f", " ", "W">>
NameCf == <<"c", "f">>
NameCF == <<"C", "F">>
NameYo == <<"Y", "o">>
RecordPool ==
    { Rec([NoKeys EXCEPT !.timeid = T(Time0700_60), !.className = T(NameCfW),
                         !.booked = BoolV(FALSE)]),
      Rec([NoKeys EXCEPT !.time = T(Time07c00), !.name = T(NameCf),
                         !.booked = BoolV(TRUE)]),
      Rec([NoKeys EXCEPT !.startTime = T(Time07c00c00), !.activity = T(NameCF),
                         !.isBooked = IntV(1)]),
      Rec([NoKeys EXCEPT !.time = T(Time0700), !.className = T(NameCfW)]),
      Rec([NoKeys EXCEPT !.timeid = T(Time0800_60), !.time = T(Time07c00),
                         !.className = T(NameCfW)]),
      Rec([NoKeys EXCEPT !.time = IntV(700), !.name = T(NameCf)]),
      Rec(NoKeys),
      Rec([NoKeys EXCEPT !.time = T(Time07c00), !.className = T(NameYo),
                         !.name = T(NameCf)]),
      Rec([NoKeys EXCEPT !.time = T(Time07c00), !.name = T(NameCf),
                         !.booked = BoolV(FALSE), !.reservada = T(<<"1">>)]),
      Rec([NoKeys EXCEPT !.timeid = T(Time0700_60), !.className = T(NameYo),
                         !.booked = BoolV(TRUE)]) }
TargetTimes == {Time0700_60, Time07c00, Time07c00c00, Time0700, Time08c00}
TargetNames == {NameCF, <<"y", "o">>}
MaxClasses == 2
Catalogs == UNION { [1..n -> RecordPool] : n \in 0..MaxClasses }

----------------------------------------------------------------------------
(* wait_until_target_time.  Times are seconds on one absolute axis. *)

MaxClock == 45
Clock == 0..MaxClock
SleepChunk == 30

\* The loop leaving once a last sleep would reach the target.
LoopDoneEarly(remaining) == remaining <= SleepChunk
\* The loop never taking the break of line 60.
LoopDoneNever(remaining) == FALSE
\* line 58: remaining <= 0
LoopDone(remaining) == remaining <= 0

\* lines 33-51: the skip_wait test, the first reading of the clock and the
\* comparison with target.
WaitEnter ==
    /\ wpc = "start"
    /\ IF skip_wait
       THEN /\ wpc' = "skipped"
            /\ UNCHANGED <<now, wait_seconds>>
       ELSE \E t \in Clock :
                /\ now' = t
                /\ IF t >= target
                   THEN wpc' = "past" /\ UNCHANGED wait_seconds
                   ELSE wpc' = "loop" /\ wait_seconds' = target - t
    /\ UNCHANGED <<skip_wait, target, sleep_time>>
    /\ UNCHANGED <<bookVars, matchVars, digestVars, runVars>>

\* lines 55-63: one pass of the loop up to the call of time.sleep.
WaitLoop ==
    /\ wpc = "loop"
    /\ \E t \in Clock :
           LET remaining == target - t
           IN  /\ now' = t
               /\ IF LoopDone(remaining)
                  THEN wpc' = "reached" /\ UNCHANGED sleep_time
                  ELSE wpc' = "sleeping" /\ sleep_time' = Min(SleepChunk, remaining)
    /\ UNCHANGED <<skip_wait, target, wait_seconds>>
    /\ UNCHANGED <<bookVars, matchVars, digestVars, runVars>>

\* line 64: time.sleep(sleep_time) returns.
WaitSleep ==
    /\ wpc = "sleeping"
    /\ wpc' = "loop"
    /\ UNCHANGED <<skip_wait, target, now, wait_seconds, sleep_time>>
    /\ UNCHANGED <<bookVars, matchVars, digestVars, runVars>>

----------------------------------------------------------------------------
(* Texts of the digest.  The digest's texts are thousands of characters     *)
(* long, so a text is a sequence of runs [ch, n]: n >= 1 copies of the      *)
(* character class ch, no two neighbouring runs of the same class.  "nl" is *)
(* a newline, "bar" the divider's U+2501, "r" "u" "n" "R" "U" "N" those     *)
(* letters, and "x" "a" "b" any characters that are none of these.          *)

Seg(ch, n) == IF n = 0 THEN <<>> ELSE <<[ch |-> ch, n |-> n]>>
Front(s) == SubSeq(s, 1, Len(s) - 1)
Last(s) == s[Len(s)]

\* a + b
Cat(a, b) ==
    IF a = <<>> THEN b
    ELSE IF b = <<>> THEN a
    ELSE IF Last(a).ch = b[1].ch
    THEN Front(a) \o <<[ch |-> b[1].ch, n |-> Last(a).n + b[1].n]>> \o Tail(b)
    ELSE a \o b

\* len(s)
RECURSIVE RLen(_)
RLen(s) == IF s = <<>> THEN 0 ELSE s[1].n + RLen(Tail(s))

IsSpace(ch) == ch \in {"nl", "sp"}
RECURSIVE LStrip(_)
LStrip(s) == IF s # <<>> /\ IsSpace(s[1].ch) THEN LStrip(Tail(s)) ELSE s
RECURSIVE RStrip(_)
RStrip(s) == IF s # <<>> /\ IsSpace(Last(s).ch) THEN RStrip(Front(s)) ELSE s
\* s.strip()
Strip(s) == LStrip(RStrip(s))

\* s[:-k], k > 0
RECURSIVE DropTail(_, _)
DropTail(s, k) ==
    IF s = <<>> THEN <<>>
    ELSE IF Last(s).n > k THEN Front(s) \o <<[ch |-> Last(s).ch, n |-> Last(s).n - k]>>
    ELSE IF Last(s).n = k THEN Front(s)
    ELSE DropTail(Front(s), k - Last(s).n)

BarLen == 15
\* s.endswith(15 times U+2501)
EndsWithBar(s) == s # <<>> /\ Last(s).ch = "bar" /\ Last(s).n >= BarLen

LowerCh(ch) ==
    CASE ch = "R" -> "r"
      [] ch = "U" -> "u"
      [] ch = "N" -> "n"
      [] OTHER -> ch
\* "run" in s, the case of the letters kept.
HasRunCaseSensitive(s) ==
    \E i \in 1..(Len(s) - 2) :
        /\ s[i].ch = "r"
        /\ s[i + 1].ch = "u" /\ s[i + 1].n = 1
        /\ s[i + 2].ch = "n"
\* "run" in s.lower()
HasRun(s) ==
    \E i \in 1..(Len(s) - 2) :
        /\ LowerCh(s[i].ch) = "r"
        /\ LowerCh(s[i + 1].ch) = "u" /\ s[i + 1].n = 1
        /\ LowerCh(s[i + 2].ch) = "n"

NL(n) == Seg("nl", n)
\* line 275: divider
Divider == Cat(NL(2), Cat(Seg("bar", BarLen), NL(2)))
SoftLimit == 4000

RECURSIVE Reversed(_)
Reversed(seq) == IF seq = <<>> THEN <<>> ELSE Append(Reversed(Tail(seq)), seq[1])

\* sep.join(parts)
RECURSIVE Join(_, _)
Join(sep, parts) ==
    IF parts = <<>> THEN <<>>
    ELSE IF Len(parts) = 1 THEN parts[1]
    ELSE Cat(parts[1], Cat(sep, Join(sep, Tail(parts))))

----------------------------------------------------------------------------
(* notify_all_workouts.  feed holds what the two GETs answer and, for each  *)
(* date of valid_date_info in order, its display label and the workout      *)
(* texts wods_by_day has for it (step 4's result, none when the date is no  *)
(* key of wods_by_day).                                                     *)

\* line 264, with the default box name: len of header_parts[0]
TitleLen == 53
\* line 237, with the default box name and a one-digit days_ahead
NoticeLen == 84
NoWorkoutsNotice == Seg("x", NoticeLen)

\* line 246: day_match in wods_by_day
HasContent(day) == day.wods # <<>>
\* line 250: combined_wods_text
Combined(day) == Join(NL(2), Reversed(day.wods))
\* lines 256-257: block
Block(day) ==
    Cat(Seg("x", 5), Cat(day.display, Cat(Seg("x", 4), Cat(NL(1), Combined(day)))))

\* lines 244-258: day_blocks
RECURSIVE DayBlocks(_)
DayBlocks(days) ==
    IF days = <<>> THEN <<>>
    ELSE IF HasContent(days[1]) THEN <<Block(days[1])>> \o DayBlocks(Tail(days))
    ELSE DayBlocks(Tail(days))

\* lines 244-254: run_days
RECURSIVE RunDays(_)
RunDays(days) ==
    IF days = <<>> THEN <<>>
    ELSE IF HasContent(days[1]) /\ HasRun(Combined(days[1]))
    THEN <<days[1].display>> \o RunDays(Tail(days))
    ELSE RunDays(Tail(days))

\* lines 264-270: header
Header(rd) ==
    LET header_parts ==
            <<Seg("x", TitleLen)>>
            \o (IF rd # <<>>
                THEN <<Cat(NL(1), Seg("x", 21))>>
                     \o [i \in 1..Len(rd) |-> Cat(Seg("x", 2), rd[i])]
                ELSE <<>>)
    IN  Cat(Join(NL(1), header_parts), NL(2))

\* The loop dropping the block that overflows the open chunk.
RECURSIVE ChunksDropOverflow(_, _, _, _)
ChunksDropOverflow(blocks, i, current_chunk, chunks) ==
    IF i > Len(blocks)
    THEN IF current_chunk # <<>> THEN Append(chunks, Strip(current_chunk)) ELSE chunks
    ELSE IF RLen(current_chunk) + RLen(blocks[i]) + RLen(Divider) > SoftLimit
    THEN ChunksDropOverflow(blocks, i + 1, <<>>, Append(chunks, Strip(current_chunk)))
    ELSE ChunksDropOverflow(blocks, i + 1, Cat(current_chunk, Cat(blocks[i], Divider)), chunks)

\* lines 277-285: the chunks, from block i on
RECURSIVE Chunks(_, _, _, _)
Chunks(blocks, i, current_chunk, chunks) ==
    IF i > Len(blocks)
    THEN IF current_chunk # <<>> THEN Append(chunks, Strip(current_chunk)) ELSE chunks
    ELSE IF RLen(current_chunk) + RLen(blocks[i]) + RLen(Divider) > SoftLimit
    THEN Chunks(blocks, i + 1, Cat(blocks[i], Divider),
                Append(chunks, Strip(current_chunk)))
    ELSE Chunks(blocks, i + 1, Cat(current_chunk, Cat(blocks[i], Divider)), chunks)

\* The chunk sent as it was cut.
CleanChunkKeep(chunk) == chunk
\* lines 291-293: clean_chunk
CleanChunk(chunk) ==
    IF EndsWithBar(chunk) THEN Strip(DropTail(chunk, BarLen)) ELSE chunk

NotifyReturn(ret, branch) == [ret |-> ret, branch |-> branch]

\* notify_all_workouts, lines 30-298: one call.
NotifyAllWorkouts ==
    /\ notify_ret = NotCalled
    /\ IF ~feed.dash_ok
       THEN notify_ret' = NotifyReturn(FALSE, "DashboardFailed") /\ UNCHANGED <<sent, day_blocks, run_days>>
       ELSE IF ~feed.has_uid
       THEN notify_ret' = NotifyReturn(FALSE, "NoUserId") /\ UNCHANGED <<sent, day_blocks, run_days>>
       ELSE IF ~feed.act_ok
       THEN notify_ret' = NotifyReturn(FALSE, "ActivityFailed") /\ UNCHANGED <<sent, day_blocks, run_days>>
       ELSE IF ~feed.json_ok
       THEN notify_ret' = NotifyReturn(FALSE, "ParseFailed") /\ UNCHANGED <<sent, day_blocks, run_days>>
       ELSE IF ~feed.has_elements
       THEN notify_ret' = NotifyReturn(FALSE, "NoElements") /\ UNCHANGED <<sent, day_blocks, run_days>>
       ELSE IF \A i \in 1..Len(feed.days) : ~HasContent(feed.days[i])
       THEN /\ sent' = Append(sent, NoWorkoutsNotice)
            /\ notify_ret' = NotifyReturn(TRUE, "NoWorkouts")
            /\ UNCHANGED <<day_blocks, run_days>>
       ELSE LET blocks == DayBlocks(feed.days)
                header == Header(RunDays(feed.days))
                chunks == Chunks(blocks, 1, header, <<>>)
                clean == [k \in 1..Len(chunks) |-> CleanChunk(chunks[k])]
            IN  /\ day_blocks' = blocks
                /\ run_days' = RunDays(feed.days)
                /\ IF blocks = <<>>
                   THEN notify_ret' = NotifyReturn(TRUE, "NoBlocks") /\ UNCHANGED sent
                   ELSE \E delivered \in [1..Len(clean) -> BOOLEAN] :
                            /\ sent' = sent \o clean
                            /\ notify_ret' =
                                   NotifyReturn(\A k \in 1..Len(clean) : delivered[k], "Sent")
    /\ UNCHANGED feed
    /\ UNCHANGED <<bookVars, matchVars, waitVars, runVars>>

\* The days of the model: a display label and the workout texts, in the
\* order the feed gave them.
Display(n) == Seg("x", n)
DayPool ==
    { [display |-> Display(13), wods |-> <<>>],
      [display |-> Display(13), wods |-> <<Seg("x", 1500)>>],
      [display |-> Display(16),
       wods |-> <<Cat(Seg("x", 2000), Cat(Seg("R", 1), Cat(Seg("u", 1), Cat(Seg("n", 1), Seg("x", 400)))))>>],
      [display |-> Display(13), wods |-> <<Seg("x", 4100)>>],
      [display |-> Display(13), wods |-> <<Cat(Seg("x", 900), Cat(NL(1), Seg("bar", BarLen)))>>],
      [display |-> Display(12), wods |-> <<Seg("a", 700), Seg("b", 800)>>],
      [display |-> Display(14),
       wods |-> <<Cat(Seg("n", 1), Seg("x", 300)),
                  Cat(Seg("x", 300), Cat(Seg("r", 1), Cat(Seg("u", 2), Cat(Seg("n", 1),
                      Cat(Seg("x", 10), Cat(Seg("r", 1), Seg("u", 1)))))))>>],
      [display |-> Display(13), wods |-> <<Seg("x", 3950)>>] }
MaxDays == 3
Feeds ==
    [dash_ok : BOOLEAN, has_uid : BOOLEAN, act_ok : BOOLEAN, json_ok : BOOLEAN,
     has_elements : BOOLEAN,
     days : UNION { [1..n -> DayPool] : n \in 0..MaxDays }]
IdleFeed ==
    [dash_ok |-> FALSE, has_uid |-> FALSE, act_ok |-> FALSE, json_ok |-> FALSE,
     has_elements |-> FALSE, days |-> <<>>]

----------------------------------------------------------------------------
(* main.  One run for one box: the time gate, the credentials, the         *)
(* schedule, login, the catalog, the matcher, the booking and the status   *)
(* given to sys.exit.  The calls of find_matching_class and book_class are *)
(* the actions FindMatchingClass and BookClass, taken at rpc = "match" and *)
(* rpc = "book".                                                           *)

NotExited == [status |-> -1, branch |-> "Running"]

\* The status a failed booking leaves being success as well.
ExitCodeFailedBookingOk(branch) ==
    IF branch \in {"NoClassScheduled", "AlreadyBooked", "Booked", "BookingFailed"} THEN 0 ELSE 1
\* The run without a class for the day ending as an error.
ExitCodeNoClassIsError(branch) ==
    IF branch \in {"AlreadyBooked", "Booked"} THEN 0 ELSE 1
\* The argument of sys.exit at lines 420, 427, 430, 444, 456, 463, 477, 491
\* and 496; an exception nobody catches ends the interpreter with status 1.
ExitCode(branch) ==
    IF branch \in {"NoClassScheduled", "AlreadyBooked", "Booked"} THEN 0 ELSE 1
Exit(branch) == [status |-> ExitCode(branch), branch |-> branch]

\* The entry schedule.get(day_name) finds: the key absent, null, an empty
\* dict, or a dict with "time" and "class_name".
DayEntry(form, time, class_name) == [form |-> form, time |-> time, class_name |-> class_name]
NoDay == DayEntry("absent", <<>>, <<>>)
DayEntries ==
    { NoDay, DayEntry("null", <<>>, <<>>), DayEntry("empty", <<>>, <<>>),
      DayEntry("set", Time07c00, NameCF), DayEntry("set", Time08c00, NameCF),
      DayEntry("set", Time07c00, <<"y", "o">>) }
\* line 442: bool(day_schedule)
HasDaySchedule(ds) == ds.form = "set"

\* The schedule file: missing, no JSON, a dict keyed by weekday (entries holds
\* the entry of day_name), or a list with one element per box (entries holds
\* each box's entry of day_name).
MaxBoxes == 2
NoSchedule == [kind |-> "none", entries |-> <<>>]
Schedules ==
    { [kind |-> k, entries |-> <<>>] : k \in {"missing", "invalid"} }
    \cup { [kind |-> "dict", entries |-> <<e>>] : e \in DayEntries }
    \cup { [kind |-> "list", entries |-> es] :
             es \in UNION { [1..n -> DayEntries] : n \in 1..MaxBoxes } }

\* login, lines 98-123: what it returns for the response of session.post.
Login(resp) ==
    IF resp.ok
    THEN IF resp.too_many THEN FALSE
         ELSE IF resp.incorrect THEN FALSE
         ELSE IF resp.url_has_box THEN TRUE
         ELSE resp.cookie
    ELSE FALSE
LoginResponses ==
    [ok : BOOLEAN, too_many : BOOLEAN, incorrect : BOOLEAN, url_has_box : BOOLEAN,
     cookie : BOOLEAN]

\* The run going on whatever login returned.
LoginPassedAlways(ret) == TRUE
\* line 454: not login(...)
LoginPassed(ret) == ret

\* get_classes_for_date, lines 144-164: what it returns for the response of
\* session.get.  kind is "list" or "dict" for the JSON value, "invalid" for
\* the JSONDecodeError, "other" for any other JSON value.
GetClasses(resp) ==
    IF ~resp.ok THEN <<>>
    ELSE IF resp.kind = "list" THEN resp.data
    ELSE IF resp.kind = "dict"
    THEN LET data == [k \in {resp.key} |-> resp.data]
         IN  Get(data, "bookings", Get(data, "classes", Get(data, "sessions", <<>>)))
    ELSE <<>>

\* The catalogs of a run: records with and without an id, booked and not.
WithId(cls, v) == [k \in DOMAIN cls \cup {"id"} |-> IF k = "id" THEN v ELSE cls[k]]
RunRecFree ==
    WithId(Rec([NoKeys EXCEPT !.timeid = T(Time0700_60), !.className = T(NameCfW),
                              !.booked = BoolV(FALSE)]), IntV(5))
RunRecBooked ==
    WithId(Rec([NoKeys EXCEPT !.time = T(Time07c00), !.name = T(NameCf),
                              !.booked = BoolV(TRUE)]), IntV(6))
RunRecNoId == Rec([NoKeys EXCEPT !.time = T(Time0700), !.className = T(NameCfW)])
RunRecYoBooked ==
    WithId(Rec([NoKeys EXCEPT !.timeid = T(Time0700_60), !.className = T(NameYo),
                              !.booked = BoolV(TRUE)]), IntV(7))
RunCatalogs ==
    { <<>>, <<RunRecFree>>, <<RunRecBooked>>, <<RunRecNoId>>,
      <<RunRecYoBooked, RunRecFree>>, <<RunRecBooked, RunRecFree>> }
CatalogResponses ==
    [ok : BOOLEAN, kind : {"list", "dict", "invalid", "other"},
     key : {"bookings", "classes", "sessions", "items"}, data : RunCatalogs]

\* The run booking a class whatever its mark.
AlreadyBookedNever(cls) == FALSE
\* line 489: matching_class.get("_is_already_booked")
AlreadyBooked(cls) == Truthy(Get(cls, "_is_already_booked", NoneV))

\* lines 412-420: wait_until_target_time has returned (its locals are gone),
\* EMAIL and PASSWORD are read.
RunCredentials ==
    /\ rpc = "gate"
    /\ wpc \in {"skipped", "past", "reached"}
    /\ \E has_credentials \in BOOLEAN :
           IF ~has_credentials
           THEN rpc' = "exit" /\ run_exit' = Exit("MissingCredentials")
           ELSE rpc' = "schedule" /\ UNCHANGED run_exit
    /\ now' = 0 /\ wait_seconds' = 0 /\ sleep_time' = 0
    /\ UNCHANGED <<skip_wait, target, wpc>>
    /\ UNCHANGED <<schedule, day_schedule, login_ret, calls>>
    /\ UNCHANGED <<bookVars, matchVars, digestVars>>

\* lines 422-449: load_schedule, schedule.get(day_name), the entry's time and
\* class_name.  A list has no get: line 441 raises AttributeError.
RunLoadSchedule ==
    /\ rpc = "schedule"
    /\ \E sched \in Schedules :
           /\ schedule' = sched
           /\ IF sched.kind = "dict"
              THEN LET ds == sched.entries[1]
                   IN  /\ day_schedule' = ds
                       /\ IF ~HasDaySchedule(ds)
                          THEN /\ rpc' = "exit" /\ run_exit' = Exit("NoClassScheduled")
                               /\ UNCHANGED <<target_time, target_name>>
                          ELSE /\ rpc' = "login" /\ UNCHANGED run_exit
                               /\ target_time' = ds.time
                               /\ target_name' = ds.class_name
              ELSE /\ rpc' = "exit"
                   /\ run_exit' = Exit(CASE sched.kind = "missing" -> "ScheduleNotFound"
                                         [] sched.kind = "invalid" -> "ScheduleInvalid"
                                         [] OTHER -> "Uncaught")
                   /\ UNCHANGED <<day_schedule, target_time, target_name>>
    /\ UNCHANGED <<login_ret, calls>>
    /\ UNCHANGED <<classes, match_result, match_called, classes_before>>
    /\ UNCHANGED <<bookVars, digestVars, waitVars>>

\* lines 451-456: login.
RunLogin ==
    /\ rpc = "login"
    /\ \E resp \in LoginResponses :
           LET ret == Login(resp)
           IN  /\ login_ret' = IF ret THEN "True" ELSE "False"
               /\ calls' = Append(calls, "login")
               /\ IF LoginPassed(ret)
                  THEN rpc' = "catalog" /\ UNCHANGED run_exit
                  ELSE rpc' = "exit" /\ run_exit' = Exit("AuthenticationFailed")
    /\ UNCHANGED <<schedule, day_schedule>>
    /\ UNCHANGED <<bookVars, matchVars, digestVars, waitVars>>

\* lines 458-463: get_classes_for_date.
RunFetchClasses ==
    /\ rpc = "catalog"
    /\ \E resp \in CatalogResponses :
           LET cs == GetClasses(resp)
           IN  /\ calls' = Append(calls, "catalog")
               /\ classes' = cs
               /\ classes_before' = cs
               /\ IF cs = <<>>
                  THEN rpc' = "exit" /\ run_exit' = Exit("NoClasses")
                  ELSE rpc' = "match" /\ UNCHANGED run_exit
    /\ UNCHANGED <<schedule, day_schedule, login_ret>>
    /\ UNCHANGED <<target_time, target_name, match_result, match_called>>
    /\ UNCHANGED <<bookVars, digestVars, waitVars>>

\* lines 470-491: find_matching_class has returned; the tests of its result.
RunChecks ==
    /\ rpc = "match"
    /\ match_called
    /\ IF match_result = 0 \/ DOMAIN classes[match_result] = {}
       THEN rpc' = "exit" /\ run_exit' = Exit("NoMatchingClass") /\ UNCHANGED class_info
       ELSE IF AlreadyBooked(classes[match_result])
       THEN rpc' = "exit" /\ run_exit' = Exit("AlreadyBooked") /\ UNCHANGED class_info
       ELSE rpc' = "book" /\ class_info' = classes[match_result] /\ UNCHANGED run_exit
    /\ UNCHANGED <<schedule, day_schedule, login_ret, calls>>
    /\ UNCHANGED <<dry_run, response, posts, book_result>>
    /\ UNCHANGED <<matchVars, digestVars, waitVars>>

\* line 496: book_class has returned.
RunFinish ==
    /\ rpc = "book"
    /\ book_result # NotCalled
    /\ rpc' = "exit"
    /\ run_exit' = Exit(IF book_result.ret THEN "Booked" ELSE "BookingFailed")
    /\ UNCHANGED <<schedule, day_schedule, login_ret, calls>>
    /\ UNCHANGED <<bookVars, matchVars, digestVars, waitVars>>

----------------------------------------------------------------------------
(* The specifications: one per operation, the other operations' variables   *)
(* at rest.                                                                 *)

IdleBook ==
    /\ class_info = Dict([id |-> ABSENT])
    /\ dry_run = FALSE
    /\ response = NoResponse
    /\ posts = <<>>
    /\ book_result = NotCalled
IdleMatch ==
    /\ classes = <<>>
    /\ target_time = <<>>
    /\ target_name = <<>>
    /\ match_result = 0
    /\ match_called = FALSE
    /\ classes_before = <<>>
IdleDigest ==
    /\ feed = IdleFeed
    /\ sent = <<>>
    /\ notify_ret = NotCalled
    /\ day_blocks = <<>>
    /\ run_days = <<>>
IdleRun ==
    /\ rpc = "idle"
    /\ schedule = NoSchedule
    /\ day_schedule = NoDay
    /\ login_ret = "NotCalled"
    /\ calls = <<>>
    /\ run_exit = NotExited
IdleWait ==
    /\ skip_wait = FALSE
    /\ target = 0
    /\ now = 0
    /\ wait_seconds = 0
    /\ sleep_time = 0
    /\ wpc = "start"

InitBook ==
    /\ class_info \in ClassInfos
    /\ dry_run \in BOOLEAN
    /\ response = NoResponse
    /\ posts = <<>>
    /\ book_result = NotCalled
    /\ IdleMatch /\ IdleDigest /\ IdleWait /\ IdleRun
NextBook == BookClass
SpecBook == InitBook /\ [][NextBook]_vars

InitMatch ==
    /\ classes \in Catalogs
    /\ classes_before = classes
    /\ target_time \in TargetTimes
    /\ target_name \in TargetNames
    /\ match_result = 0
    /\ match_called = FALSE
    /\ IdleBook /\ IdleDigest /\ IdleWait /\ IdleRun
NextMatch == FindMatchingClass
SpecMatch == InitMatch /\ [][NextMatch]_vars

InitDigest ==
    /\ feed \in Feeds
    /\ sent = <<>>
    /\ notify_ret = NotCalled
    /\ day_blocks = <<>>
    /\ run_days = <<>>
    /\ IdleBook /\ IdleMatch /\ IdleWait /\ IdleRun
NextDigest == NotifyAllWorkouts
SpecDigest == InitDigest /\ [][NextDigest]_vars

InitWait ==
    /\ skip_wait \in BOOLEAN
    /\ target \in Clock
    /\ now = 0
    /\ wait_seconds = 0
    /\ sleep_time = 0
    /\ wpc = "start"
    /\ IdleBook /\ IdleMatch /\ IdleDigest /\ IdleRun
NextWait == WaitEnter \/ WaitLoop \/ WaitSleep
SpecWait == InitWait /\ [][NextWait]_vars

\* The time gate under a clock that moves forward: a reading is never earlier
\* than the one before it, and later than it when a sleep lies between them
\* (sleep_time is 0 until the first sleep).  main is one sequential process,
\* so a step that can be taken is taken.
WaitLoopMono ==
    /\ WaitLoop
    /\ IF sleep_time > 0 THEN now' > now ELSE now' >= now
\* The targets: already past, one second ahead, one sleep ahead, several
\* sleeps ahead.
MonoTargets == {0, 1, SleepChunk, SleepChunk + 1, MaxClock}
InitWaitMono ==
    /\ skip_wait \in BOOLEAN
    /\ target \in MonoTargets
    /\ now = 0
    /\ wait_seconds = 0
    /\ sleep_time = 0
    /\ wpc = "start"
    /\ IdleBook /\ IdleMatch /\ IdleDigest /\ IdleRun
NextWaitMono == WaitEnter \/ WaitLoopMono \/ WaitSleep
SpecWaitMono == InitWaitMono /\ [][NextWaitMono]_vars /\ WF_vars(NextWaitMono)

\* The targets of a run's time gate: already past, and ahead.
RunTargets == {0, MaxClock}
InitRun ==
    /\ class_info = Dict([id |-> ABSENT])
    /\ dry_run \in BOOLEAN
    /\ response = NoResponse
    /\ posts = <<>>
    /\ book_result = NotCalled
    /\ IdleMatch /\ IdleDigest
    /\ skip_wait \in BOOLEAN
    /\ target \in RunTargets
    /\ now = 0
    /\ wait_seconds = 0
    /\ sleep_time = 0
    /\ wpc = "start"
    /\ rpc = "gate"
    /\ schedule = NoSchedule
    /\ day_schedule = NoDay
    /\ login_ret = "NotCalled"
    /\ calls = <<>>
    /\ run_exit = NotExited
NextRun ==
    \/ WaitEnter \/ WaitLoop \/ WaitSleep
    \/ RunCredentials \/ RunLoadSchedule \/ RunLogin \/ RunFetchClasses
    \/ FindMatchingClass \/ RunChecks \/ BookClass \/ RunFinish
SpecRun == InitRun /\ [][NextRun]_vars

----------------------------------------------------------------------------
(* The properties *)

\* The outcome a branch of book_class stands for.
Outcome(branch) == IF branch = "SuccessNoJson" THEN "Success" ELSE branch

\* The precedence of the specification, on the response as it was received.
RefOutcome(resp) ==
    LET o == resp.obj
        Is(k, v) == k \in DOMAIN o /\ o[k] \in v
    IN  IF ~resp.ok THEN "TransportError"
        ELSE IF resp.kind # "dict" THEN "Success"
        ELSE IF Is("logout", {IntV(1), BoolV(TRUE)}) THEN "SessionExpired"
        ELSE IF Is("bookState", {IntV(-2)}) THEN "NoCredit"
        ELSE IF Is("bookState", {IntV(-12)}) THEN "TooSoonToBook"
        ELSE IF "errorMssg" \in DOMAIN o \/ "errorMssgLang" \in DOMAIN o THEN "GenericError"
        ELSE "Success"

Posted == book_result.branch \notin {"NotCalled", "NoClassId", "DryRun"}

\* C1: every response to the booking POST is classified by the precedence
\* transport error, session expired, no credit, too soon, generic error,
\* success, and book_class returns True exactly for success.
C1_Precedence ==
    Posted =>
        /\ Outcome(book_result.branch) = RefOutcome(response)
        /\ book_result.ret <=> (RefOutcome(response) = "Success")

\* A response with logout = 1 and bookState = -2 was classified.
C1_Witness ==
    /\ Posted /\ response.ok /\ response.kind = "dict"
    /\ "logout" \in DOMAIN response.obj /\ response.obj["logout"] = IntV(1)
    /\ "bookState" \in DOMAIN response.obj /\ response.obj["bookState"] = IntV(-2)
    /\ book_result.branch = "SessionExpired"

\* The record's class id, by the first key present, is truthy.
RefHasClassId(info) ==
    LET first == IF "id" \in DOMAIN info THEN "id"
                 ELSE IF "classId" \in DOMAIN info THEN "classId" ELSE "sessionId"
    IN  first \in DOMAIN info /\ Truthy(info[first])

\* C2 as claimed: with dry_run, whatever id keys the record has or lacks, no
\* POST is issued and book_class returns True.
C2_DryRunAlwaysSuccess ==
    (book_result # NotCalled /\ dry_run) => (posts = <<>> /\ book_result.ret)

\* C2 as amended: with dry_run no POST is issued, and book_class returns True
\* exactly when the record's class id is truthy.
C2_DryRunNoPost ==
    (book_result # NotCalled /\ dry_run) =>
        /\ posts = <<>>
        /\ response = NoResponse
        /\ book_result.ret <=> RefHasClassId(class_info)

\* A dry run of a record with a class id has returned.
C2_Witness == dry_run /\ book_result.branch = "DryRun" /\ book_result.ret

\* Record i of the catalog satisfies both conditions.
Qualifies(cs, i) == TimeMatch(cs[i], target_time) /\ NameMatch(cs[i], target_name)

\* C3: find_matching_class returns None when no record satisfies both
\* conditions, and else the record of the smallest index that does.
C3_FirstQualifying ==
    match_called =>
        IF \A i \in 1..Len(classes_before) : ~Qualifies(classes_before, i)
        THEN match_result = 0
        ELSE /\ match_result \in 1..Len(classes_before)
             /\ Qualifies(classes_before, match_result)
             /\ \A j \in 1..(match_result - 1) : ~Qualifies(classes_before, j)

\* Two records qualify and the first of them was returned.
C3_Witness ==
    /\ match_called /\ match_result = 1
    /\ Len(classes_before) > 1 /\ Qualifies(classes_before, 2)

FourForms == {Time0700_60, Time07c00, Time07c00c00, Time0700}

\* C4: with the record's time and the target time both among "0700_60",
\* "07:00", "07:00:00" and "0700" the time condition holds, so a record of
\* such a time whose name matches is returned unless an earlier one is.
C4_FormsMatch ==
    (match_called /\ target_time \in FourForms) =>
        \A i \in 1..Len(classes_before) :
            ( /\ ClassTime(classes_before[i]).t = "str"
              /\ ClassTime(classes_before[i]).s \in FourForms
              /\ NameMatch(classes_before[i], target_name) )
            => match_result \in 1..i

\* One of the record's booked flags is truthy.
RefBooked(cls) ==
    \E k \in {"booked", "isBooked", "reservada"} : k \in DOMAIN cls /\ Truthy(cls[k])

\* C5: when the first record satisfying both conditions is booked, it is the
\* record returned, and it carries the already-booked mark.
C5_BookedStillReturned ==
    match_called =>
        \A i \in 1..Len(classes_before) :
            ( /\ Qualifies(classes_before, i)
              /\ \A j \in 1..(i - 1) : ~Qualifies(classes_before, j)
              /\ RefBooked(classes_before[i]) )
            => /\ match_result = i
               /\ "_is_already_booked" \in DOMAIN classes[i]
               /\ classes[i]["_is_already_booked"] = BoolV(TRUE)

\* A booked record was returned though a later unbooked record qualifies.
C5_Witness ==
    /\ match_called /\ match_result = 1
    /\ RefBooked(classes_before[1])
    /\ Len(classes_before) > 1
    /\ Qualifies(classes_before, 2) /\ ~RefBooked(classes_before[2])

\* C6 as claimed: after the call every record of the catalog has the keys and
\* values it had before.
C6_NeverMutates == match_called => classes = classes_before

\* C6 as amended: after the call every record is as before, except that the
\* returned record, when booked, has the one key _is_already_booked more, set
\* to True.
C6_OnlyMarksReturned ==
    match_called =>
        /\ Len(classes) = Len(classes_before)
        /\ \A i \in 1..Len(classes_before) :
               IF i = match_result /\ RefBooked(classes_before[i])
               THEN /\ DOMAIN classes[i] = DOMAIN classes_before[i] \cup {"_is_already_booked"}
                    /\ \A k \in DOMAIN classes_before[i] : classes[i][k] = classes_before[i][k]
                    /\ classes[i]["_is_already_booked"] = BoolV(TRUE)
               ELSE classes[i] = classes_before[i]

\* The call has marked a record that had no booked key of its own.
C6_Witness ==
    /\ match_called /\ match_result # 0
    /\ classes # classes_before
    /\ "booked" \notin DOMAIN classes_before[match_result]

\* C7: every chunk handed to the notifier has at most 4000 characters.
C7_ChunksWithinLimit == \A k \in 1..Len(sent) : RLen(sent[k]) <= SoftLimit

RECURSIVE SumLen(_)
SumLen(blocks) == IF blocks = <<>> THEN 0 ELSE RLen(blocks[1]) + SumLen(Tail(blocks))

\* C8 as claimed: day blocks of more than 4000 characters together are sent
\* in more than one chunk, and no chunk ends with the divider's line.
C8_NoTrailingDivider ==
    notify_ret.branch = "Sent" =>
        /\ SumLen(day_blocks) > SoftLimit => Len(sent) > 1
        /\ \A k \in 1..Len(sent) : ~EndsWithBar(sent[k])

\* C8 as amended: day blocks of more than 4000 characters together are sent
\* in more than one chunk, and a chunk ends with the divider's line only when
\* the text of a day block itself ends with it.
C8_NoDanglingDivider ==
    notify_ret.branch = "Sent" =>
        /\ SumLen(day_blocks) > SoftLimit => Len(sent) > 1
        /\ (\A b \in 1..Len(day_blocks) : ~EndsWithBar(day_blocks[b]))
               => \A k \in 1..Len(sent) : ~EndsWithBar(sent[k])

\* Blocks that each fit the limit but not together were sent, in more than
\* one chunk.
C8_Witness ==
    /\ notify_ret.branch = "Sent"
    /\ SumLen(day_blocks) > SoftLimit
    /\ \A b \in 1..Len(day_blocks) :
           RLen(day_blocks[b]) <= SoftLimit /\ ~EndsWithBar(day_blocks[b])
    /\ Len(sent) > 1

\* C9: the wait returns at once when skip_wait is set or the first reading
\* of the clock is at or past the target, without sleeping; it enters the
\* loop only otherwise, and leaves it only on a reading at or past the target.
C9_ReturnsAtTarget ==
    /\ wpc = "skipped" => skip_wait
    /\ skip_wait => wpc \in {"start", "skipped"}
    /\ wpc = "past" => now >= target
    /\ wpc \in {"skipped", "past"} => sleep_time = 0
    /\ wpc \in {"loop", "sleeping", "reached"} => wait_seconds > 0
    /\ wpc = "reached" => now >= target

\* The wait has returned from its loop after a sleep of the full 30 seconds.
C9_Witness == wpc = "reached" /\ sleep_time = SleepChunk /\ now >= target

\* C10: a feed with no elements container gives what a feed with no matching
\* workouts gives: the no-workouts notice is sent and True is returned.
C10_MissingElementsIsNoData ==
    ( /\ notify_ret # NotCalled
      /\ feed.dash_ok /\ feed.has_uid /\ feed.act_ok /\ feed.json_ok
      /\ ~feed.has_elements )
    => (notify_ret.ret /\ sent = <<NoWorkoutsNotice>>)

\* The number of times x is in seq.
Count(seq, x) == Cardinality({i \in 1..Len(seq) : seq[i] = x})
\* The boxes of the schedule that have a class for the day.
ScheduledBoxes == {b \in 1..Len(schedule.entries) : HasDaySchedule(schedule.entries[b])}

\* C11: a failure in one box does not end the run; every later box of the
\* list the schedule resolves to is still processed.  So when the run has
\* ended, every box of the schedule with a class for the day has been
\* processed: there has been one login for each of them.
C11_LaterBoxesProcessed ==
    (rpc = "exit" /\ schedule.kind \in {"dict", "list"})
        => Count(calls, "login") = Cardinality(ScheduledBoxes)

\* "run", in any case, is in the text s.
RefRunIn(s) ==
    \E i \in 1..(Len(s) - 2) :
        /\ s[i].ch \in {"r", "R"}
        /\ s[i + 1].ch \in {"u", "U"} /\ s[i + 1].n = 1
        /\ s[i + 2].ch \in {"n", "N"}
\* The days of the feed that have workouts of which one names a run (the
\* workouts are joined by blank lines, which are in no "run").
RefRunIdx ==
    {i \in 1..Len(feed.days) :
        \E w \in 1..Len(feed.days[i].wods) : RefRunIn(feed.days[i].wods[w])}
\* The k-th of them, in the order of the feed.
RefRunDay(k) ==
    CHOOSE i \in RefRunIdx : Cardinality({j \in RefRunIdx : j <= i}) = k
\* s begins with p.
StartsWith(s, p) == Len(s) >= Len(p) /\ SubSeq(s, 1, Len(p)) = p

\* C12: a day with workouts is listed in the header's run-day list exactly
\* when "run", in any case, is in its combined workout text: run_days holds
\* the labels of exactly those days, in the order of the feed, and the first
\* text sent begins with the header that lists them.
C12_RunDaysListed ==
    notify_ret.branch = "Sent" =>
        /\ Len(run_days) = Cardinality(RefRunIdx)
        /\ \A k \in 1..Len(run_days) : run_days[k] = feed.days[RefRunDay(k)].display
        /\ StartsWith(sent[1], Strip(Header(run_days)))
\* A digest of three days with workouts: one with "Run", one with "ru" and
\* "n" in two workouts, one with neither; only the first is listed.
C12_Witness ==
    /\ notify_ret.branch = "Sent"
    /\ Len(day_blocks) = 3
    /\ Len(run_days) = 1
    /\ \E i \in 1..Len(feed.days) :
           /\ i \notin RefRunIdx
           /\ \E w \in 1..Len(feed.days[i].wods) :
                  \E j \in 1..Len(feed.days[i].wods[w]) : feed.days[i].wods[w][j].ch = "r"

\* C13: in every run the booking request is issued at most once, and once it
\* has been issued no booking request, login or catalog fetch follows before
\* the run ends.
C13_BookedAtMostOnce ==
    [][/\ Len(posts') <= 1
       /\ Count(calls', "login") <= 1 /\ Count(calls', "catalog") <= 1
       /\ posts # <<>> => (posts' = posts /\ calls' = calls)]_vars
\* A run that has ended after its one booking request was refused.
C13_Witness ==
    /\ rpc = "exit"
    /\ Len(posts) = 1
    /\ ~book_result.ret
    /\ calls = <<"login", "catalog">>

\* The time gate has returned.
GateReturned == wpc \in {"skipped", "past", "reached"}

\* C14: the catalog fetch and the booking happen only after the time gate has
\* returned and login has succeeded (login itself comes after the gate); when
\* login fails the run ends with neither a catalog fetch nor a booking.
C14_AfterGateAndLogin ==
    /\ calls # <<>> => (GateReturned /\ calls[1] = "login")
    /\ (Count(calls, "catalog") > 0 \/ posts # <<>> \/ book_result # NotCalled)
           => (GateReturned /\ login_ret = "True")
    /\ login_ret = "False"
           => (rpc = "exit" /\ calls = <<"login">> /\ posts = <<>> /\ book_result = NotCalled)
\* A run that waited for its target, logged in, fetched the catalog and sent
\* the booking request.
C14_Witness ==
    /\ wpc = "reached"
    /\ login_ret = "True"
    /\ calls = <<"login", "catalog">>
    /\ Len(posts) = 1

\* The record the matcher returned carries the already-booked mark.
MatchedMarked ==
    /\ match_called
    /\ match_result # 0
    /\ "_is_already_booked" \in DOMAIN classes[match_result]

\* C15: when the matched record carries the already-booked mark, the run
\* issues no booking request, with or without dry_run (book_class is not even
\* called), and ends with the success status.
C15_BookedIsSkipped ==
    MatchedMarked =>
        /\ posts = <<>> /\ book_result = NotCalled
        /\ rpc \in {"match", "exit"}
        /\ rpc = "exit" => run_exit = [status |-> 0, branch |-> "AlreadyBooked"]
\* A run without dry_run that ended on a class already booked.
C15_Witness ==
    /\ MatchedMarked
    /\ rpc = "exit"
    /\ ~dry_run
    /\ IsBooked(classes_before[match_result])

\* The schedule is a dict without a class for the day: the weekday's key is
\* absent, or its value is null or empty.
NoEntryForDay == schedule.kind = "dict" /\ schedule.entries[1].form # "set"

\* C16: when the schedule has no entry for the target weekday, the run makes
\* no login, no catalog fetch and no booking, and ends with a status that is
\* no error.
C16_NoEntryNoRequests ==
    NoEntryForDay =>
        /\ rpc = "exit"
        /\ calls = <<>> /\ posts = <<>> /\ login_ret = "NotCalled"
        /\ ~match_called /\ book_result = NotCalled
        /\ run_exit.status = 0
\* A run whose schedule lacks the weekday's key.
C16_Witness ==
    /\ schedule.kind = "dict"
    /\ schedule.entries[1].form = "absent"
    /\ rpc = "exit"
    /\ wpc = "reached"

\* C18: the exit status of a run is 0 exactly when the weekday has no
\* schedule entry, or the matched class is already booked, or book_class
\* returned success (dry run included); it is 1 for missing credentials, a
\* schedule that is missing or no JSON, a failed login, an empty catalog, no
\* matching class, and every booking that failed.
C18_ExitStatus ==
    rpc = "exit" =>
        /\ run_exit.status \in {0, 1}
        /\ run_exit.status = 0 <=> (NoEntryForDay \/ MatchedMarked \/ book_result.ret)
        /\ schedule = NoSchedule => run_exit.status = 1
        /\ schedule.kind \in {"missing", "invalid"} => run_exit.status = 1
        /\ login_ret = "False" => run_exit.status = 1
        /\ (Count(calls, "catalog") = 1 /\ classes = <<>>) => run_exit.status = 1
        /\ (match_called /\ match_result = 0) => run_exit.status = 1
        /\ (book_result # NotCalled /\ ~book_result.ret) => run_exit.status = 1
\* A run that ended after a booking was refused, with status 1.
C18_Witness ==
    /\ rpc = "exit"
    /\ book_result.branch = "NoCredit"
    /\ run_exit.status = 1

\* C17: with a clock in which every sleep moves the next reading forward, the
\* wait returns: whether or not skip_wait is set, the function is left after
\* finitely many passes of the loop.  Every sleep is positive, at most 30
\* seconds and at most the time that remains to the target.
C17_WaitReturns ==
    /\ [](wpc = "sleeping" =>
            (sleep_time > 0 /\ sleep_time <= SleepChunk /\ sleep_time <= target - now))
    /\ <>GateReturned
    /\ (~skip_wait) ~> (wpc \in {"past", "reached"})
\* A wait of more than 30 seconds that returned after a last sleep shorter
\* than 30 seconds.
C17_Witness ==
    /\ wpc = "reached"
    /\ wait_seconds > SleepChunk
    /\ sleep_time > 0 /\ sleep_time < SleepChunk

\* The blocks of the days of the feed that have workouts, in the order of the
\* requested dates.
RefBlocks ==
    LET days == SelectSeq(feed.days, HasContent)
    IN  [i \in 1..Len(days) |-> Block(days[i])]
\* The header as a text of its own.
HeaderAlone == Strip(Header(run_days))
\* The digest in one piece: the header, then every block once, in order,
\* with the divider between two blocks.
WholeDigest == Strip(Cat(Header(run_days), Join(Divider, RefBlocks)))
\* The texts sent put together again: the divider between two chunks, the
\* header's blank line after a chunk that is the header alone.
SentTogether ==
    IF sent[1] = HeaderAlone
    THEN Cat(sent[1], Cat(NL(2), Join(Divider, Tail(sent))))
    ELSE Join(Divider, sent)
\* The header and the first block do not go into one chunk.
FirstBlockOverflows ==
    RLen(Header(run_days)) + RLen(RefBlocks[1]) + RLen(Divider) > SoftLimit

\* C19 as claimed: the texts sent hold the header once, before the first
\* block, and every day block once in the order of the dates, and no text
\* sent is the header alone.
C19_NothingLostNoHeaderAlone ==
    notify_ret.branch = "Sent" =>
        /\ SentTogether = WholeDigest
        /\ \A k \in 1..Len(sent) : sent[k] # HeaderAlone
\* C19: the texts sent hold the header once, before the first block, and
\* every day block once in the order of the dates; the first text is the
\* header alone exactly when the header, the first block and a divider
\* exceed 4000 characters, and no later text is the header alone.
C19_NothingLost ==
    notify_ret.branch = "Sent" =>
        /\ SentTogether = WholeDigest
        /\ sent[1] = HeaderAlone <=> FirstBlockOverflows
        /\ \A k \in 2..Len(sent) : sent[k] # HeaderAlone
\* A digest of three days, every block within the limit, sent as the header
\* alone and one text per day.
C19_Witness ==
    /\ notify_ret.branch = "Sent"
    /\ Len(day_blocks) = 3
    /\ \A b \in 1..Len(day_blocks) : RLen(day_blocks[b]) <= SoftLimit
    /\ sent[1] = HeaderAlone
    /\ Len(sent) >= 3

====
